---- MODULE Spec2Model ----
(***************************************************************************)
(* Document approval / signature workflow of SignTracker.                  *)
(*                                                                         *)
(* The store is the hosted database (tables documents, approvers,          *)
(* external_signers, status_updates, with their row-level-security         *)
(* policies).  Each signed-in user drives three pages: CreateDocument      *)
(* (onSubmit), AdminApprovals (fetchPendingApprovals, handleApproval) and  *)
(* DocumentDetails (fetchDocumentDetails, updateSignerStatus).  Every      *)
(* `await` of a handler is an interleaving point: one action per segment.  *)
(***************************************************************************)
EXTENDS Naturals, Sequences, FiniteSets, TLC

\* Bound of the model: the most external signers one submission names.
MaxSigners == 2

\* Rows of the users table: two regular users and the admin users.
Users == {"u1", "u2", "a1", "a2", "a3"}
Admins == {"a1", "a2", "a3"}
is_admin(u) == u \in Admins

\* Bound of the model: calls of handleApproval on another user's approver row
\* start only while the log holds fewer rows than this.
MaxStatusUpdates == 3

\* Bound of the model: the number of fetchUserProfile chains one run starts.
MaxFetches == 3

\* `retryCount < 3` in fetchUserProfile.
MaxRetries == 3

\* The accounts that can sign up, and the employee codes they may type.
AuthIds == {"p1", "p2"}
EmployeeCodes == {"0001", "0004", "0005", "1", "00001"}

\* Ids of the documents that can be created.
Docs == {"d1", "d2"}

\* The id the database generates for a document inserted by user u: one id is
\* held ready for each of u1 and u2, so that each of them creates one document.
DocumentIds(u) ==
    IF u = "u1" THEN {"d1"} ELSE IF u = "u2" THEN {"d2"} ELSE {}

DocumentStatus ==
    {"draft", "pending_approval", "approved", "rejected", "in_progress", "completed"}
ApprovalStatus == {"pending", "approved", "rejected"}
SigningStatus == {"pending", "signed", "rejected"}

None == "none"

VARIABLES
    docStatus,         \* documents.status per id; None while the row does not exist
    docCreatedBy,      \* documents.created_by per id
    approvers,         \* approvers rows per document: sequence, index = row id
    externalSigners,   \* external_signers rows per document: sequence, index = row id
    statusUpdates,     \* status_updates rows, in insertion order
    submitPc,          \* CreateDocument.onSubmit position per user
    submitArgs,        \* onSubmit locals: data, document.id
    errors,            \* CreateDocument formState.errors: the form shows validation errors
    toast,             \* the last toast shown to each user: None, "success" or "error"
    pendingDocuments,  \* AdminApprovals state: the list loaded by fetchPendingApprovals
    approvalPc,        \* handleApproval position per user
    approvalArgs,      \* handleApproval locals
    pageDocument,      \* DocumentDetails state `document` per user
    pageSigners,       \* DocumentDetails state `signers` per user
    signerPc,          \* updateSignerStatus position per user
    signerArgs,        \* updateSignerStatus locals
    authCode,          \* auth.users: the employee_code in each account's metadata
    profiles,          \* public.users rows of the accounts: employee_code, is_admin
    session,           \* the browser's session: its user id, or None
    user,              \* AuthProvider state `user`
    loading,           \* AuthProvider state `loading`
    mountPc,           \* AuthProvider useEffect: "getSession" until getSession resolves
    signOutPc,         \* AuthProvider.signOut: "setUser" between its await and setUser(null)
    fetches,           \* fetchUserProfile calls in flight or waiting for their timer
    fetchCount         \* fetchUserProfile chains started so far

storeVars == <<docStatus, docCreatedBy, approvers, externalSigners, statusUpdates>>
submitVars == <<submitPc, submitArgs, errors>>
approvalVars == <<pendingDocuments, approvalPc, approvalArgs>>
detailsVars == <<pageDocument, pageSigners, signerPc, signerArgs>>
workflowVars == <<storeVars, submitVars, approvalVars, detailsVars, toast>>
authVars == <<authCode, profiles, session, user, loading, mountPc, signOutPc, fetches,
              fetchCount>>
vars == <<workflowVars, authVars>>

NoArgs == [documentId |-> None]
NoDocument == [id |-> None, created_by |-> None]
NoProfile == [employee_code |-> None, is_admin |-> FALSE]
NoUser == [id |-> None, employee_code |-> None, is_admin |-> FALSE]

----------------------------------------------------------------------------
\* Helpers over sequences of rows.

Range(s) == {s[i] : i \in DOMAIN s}

\* Array.prototype.every / some over the status column.
Every(rows, st) == \A i \in DOMAIN rows : rows[i].status = st
Some(rows, st) == \E i \in DOMAIN rows : rows[i].status = st

\* Non-empty sequences of distinct members of `admins`: what the multi-select of
\* approvers can hold.
ApproverLists(admins) ==
    {s \in UNION {[1..k -> admins] : k \in 1..Cardinality(admins)} :
        \A i, j \in DOMAIN s : i # j => s[i] # s[j]}

\* approved_at: status === 'approved' ? new Date().toISOString() : null
approvedAt(status) == IF status = "approved" THEN "now" ELSE None

\* A signed_at written with the time of the call whatever the outcome.
signedAtAlways(status) == "now"

\* signed_at: status === 'signed' ? new Date().toISOString() : null
signedAt(status) == IF status = "signed" THEN "now" ELSE None

----------------------------------------------------------------------------
\* Row-level-security policies (UPDATE ... USING).

DocumentsUpdatePolicy(uid, d) ==
    uid = docCreatedBy[d] \/ is_admin(uid)

ApproversUpdatePolicy(uid, row) ==
    uid = row.user_id

\* ExternalSignersUpdatePolicy letting every signed-in user update.
ExternalSignersUpdatePolicyAnyUser(uid, d) ==
    docStatus[d] # None /\ uid \in Users

ExternalSignersUpdatePolicy(uid, d) ==
    docStatus[d] # None /\ (docCreatedBy[d] = uid \/ is_admin(uid))

----------------------------------------------------------------------------
Init ==
    /\ docStatus = [d \in Docs |-> None]
    /\ docCreatedBy = [d \in Docs |-> None]
    /\ approvers = [d \in Docs |-> <<>>]
    /\ externalSigners = [d \in Docs |-> <<>>]
    /\ statusUpdates = <<>>
    /\ submitPc = [u \in Users |-> "idle"]
    /\ submitArgs = [u \in Users |-> NoArgs]
    /\ errors = [u \in Users |-> FALSE]
    /\ toast = [u \in Users |-> None]
    /\ pendingDocuments = [u \in Users |-> {}]
    /\ approvalPc = [u \in Users |-> "idle"]
    /\ approvalArgs = [u \in Users |-> NoArgs]
    /\ pageDocument = [u \in Users |-> NoDocument]
    /\ pageSigners = [u \in Users |-> <<>>]
    /\ signerPc = [u \in Users |-> "idle"]
    /\ signerArgs = [u \in Users |-> NoArgs]
    /\ authCode = [id \in AuthIds |-> None]
    /\ profiles = [id \in AuthIds |-> NoProfile]
    /\ session = None
    /\ user = NoUser
    /\ loading = TRUE
    /\ mountPc = "getSession"
    /\ signOutPc = "idle"
    /\ fetches = {}
    /\ fetchCount = 0

----------------------------------------------------------------------------
\* CreateDocument.onSubmit: four inserts, one per await.

\* createDocumentSchema without min(1) on approvers.
createDocumentSchemaNoMinApprovers(data) ==
    data.external_signers >= 1

\* zod: approvers min(1), external_signers min(1).
createDocumentSchema(data) ==
    /\ Len(data.approvers) >= 1
    /\ data.external_signers >= 1

\* handleSubmit with data the resolver refuses: onSubmit is not called and the
\* form shows the errors.
HandleSubmitInvalid(u, data) ==
    /\ submitPc[u] = "idle"
    /\ ~createDocumentSchema(data)
    /\ errors' = [errors EXCEPT ![u] = TRUE]
    /\ UNCHANGED <<authVars, storeVars, submitPc, submitArgs, approvalVars, detailsVars, toast>>

OnSubmitInsertDocument(u, data) ==
    /\ submitPc[u] = "idle"
    /\ createDocumentSchema(data)
    /\ \E d \in DocumentIds(u) :
        /\ docStatus[d] = None
        /\ docStatus' = [docStatus EXCEPT ![d] = "pending_approval"]
        /\ docCreatedBy' = [docCreatedBy EXCEPT ![d] = u]
        /\ submitArgs' = [submitArgs EXCEPT ![u] =
                [documentId |-> d, approvers |-> data.approvers,
                 external_signers |-> data.external_signers]]
    /\ submitPc' = [submitPc EXCEPT ![u] = "insertApprovers"]
    /\ UNCHANGED <<authVars, toast, approvers, externalSigners, statusUpdates, approvalVars, detailsVars>>
    /\ errors' = [errors EXCEPT ![u] = FALSE]

\* approverRecords with `order: index` (counted from 0).
approverRecordsFromZero(data) ==
    [index \in 1..Len(data.approvers) |->
        [user_id |-> data.approvers[index], order |-> index - 1,
         status |-> "pending", approved_at |-> None]]

approverRecords(data) ==
    [index \in 1..Len(data.approvers) |->
        [user_id |-> data.approvers[index], order |-> index,
         status |-> "pending", approved_at |-> None]]

\* The approvers table without its UNIQUE constraint.
ApproversUniqueNotEnforced(rows) == TRUE

\* UNIQUE(document_id, user_id), over the approver rows of one document.
ApproversUnique(rows) ==
    \A i, j \in DOMAIN rows : i # j => rows[i].user_id # rows[j].user_id

\* The insert of approverRecords refused by the UNIQUE constraint: the whole
\* insert fails, approverError is thrown and the catch shows the error toast.
OnSubmitInsertApproversViolatesUnique(u) ==
    /\ submitPc[u] = "insertApprovers"
    /\ LET d == submitArgs[u].documentId IN
        ~ApproversUnique(approvers[d] \o approverRecords(submitArgs[u]))
    /\ submitPc' = [submitPc EXCEPT ![u] = "idle"]
    /\ submitArgs' = [submitArgs EXCEPT ![u] = NoArgs]
    /\ toast' = [toast EXCEPT ![u] = "error"]
    /\ UNCHANGED <<authVars, storeVars, errors, approvalVars, detailsVars>>

OnSubmitInsertApprovers(u) ==
    /\ submitPc[u] = "insertApprovers"
    /\ LET d == submitArgs[u].documentId IN
        ApproversUnique(approvers[d] \o approverRecords(submitArgs[u]))
    /\ LET d == submitArgs[u].documentId IN
        approvers' = [approvers EXCEPT ![d] = approvers[d] \o approverRecords(submitArgs[u])]
    /\ submitPc' = [submitPc EXCEPT ![u] = "insertSigners"]
    /\ UNCHANGED <<authVars, toast, errors, docStatus, docCreatedBy, externalSigners, statusUpdates, submitArgs,
                   approvalVars, detailsVars>>

signerRecords(data) ==
    [index \in 1..data.external_signers |->
        [order |-> index, status |-> "pending", signed_at |-> None]]

OnSubmitInsertSigners(u) ==
    /\ submitPc[u] = "insertSigners"
    /\ LET d == submitArgs[u].documentId IN
        externalSigners' =
            [externalSigners EXCEPT ![d] = externalSigners[d] \o signerRecords(submitArgs[u])]
    /\ submitPc' = [submitPc EXCEPT ![u] = "insertStatusUpdate"]
    /\ UNCHANGED <<authVars, toast, errors, docStatus, docCreatedBy, approvers, statusUpdates, submitArgs,
                   approvalVars, detailsVars>>

OnSubmitInsertStatusUpdate(u) ==
    /\ submitPc[u] = "insertStatusUpdate"
    /\ statusUpdates' = Append(statusUpdates,
            [document_id |-> submitArgs[u].documentId, updated_by |-> u,
             update_type |-> "created"])
    /\ submitPc' = [submitPc EXCEPT ![u] = "idle"]
    /\ submitArgs' = [submitArgs EXCEPT ![u] = NoArgs]
    /\ UNCHANGED <<authVars, errors, docStatus, docCreatedBy, approvers, externalSigners,
                   approvalVars, detailsVars>>
    /\ toast' = [toast EXCEPT ![u] = "success"]

\* onSubmit when a request fails.  The inserts into documents, approvers and
\* external_signers are checked (`if (error) throw error`): the catch shows the
\* error toast and what was inserted before stays.
OnSubmitInsertDocumentFails(u, data) ==
    /\ submitPc[u] = "idle"
    /\ createDocumentSchema(data)
    /\ errors' = [errors EXCEPT ![u] = FALSE]
    /\ toast' = [toast EXCEPT ![u] = "error"]
    /\ UNCHANGED <<authVars, storeVars, submitPc, submitArgs, approvalVars, detailsVars>>

OnSubmitInsertApproversFails(u) ==
    /\ submitPc[u] = "insertApprovers"
    /\ submitPc' = [submitPc EXCEPT ![u] = "idle"]
    /\ submitArgs' = [submitArgs EXCEPT ![u] = NoArgs]
    /\ toast' = [toast EXCEPT ![u] = "error"]
    /\ UNCHANGED <<authVars, storeVars, errors, approvalVars, detailsVars>>

OnSubmitInsertSignersFails(u) ==
    /\ submitPc[u] = "insertSigners"
    /\ submitPc' = [submitPc EXCEPT ![u] = "idle"]
    /\ submitArgs' = [submitArgs EXCEPT ![u] = NoArgs]
    /\ toast' = [toast EXCEPT ![u] = "error"]
    /\ UNCHANGED <<authVars, storeVars, errors, approvalVars, detailsVars>>

\* The insert into status_updates is awaited without a look at its error.
OnSubmitInsertStatusUpdateFails(u) ==
    /\ submitPc[u] = "insertStatusUpdate"
    /\ submitPc' = [submitPc EXCEPT ![u] = "idle"]
    /\ submitArgs' = [submitArgs EXCEPT ![u] = NoArgs]
    /\ toast' = [toast EXCEPT ![u] = "success"]
    /\ UNCHANGED <<authVars, storeVars, errors, approvalVars, detailsVars>>

----------------------------------------------------------------------------
\* AdminApprovals.

\* The query of fetchPendingApprovals: documents with status pending_approval
\* inner-joined with this user's pending approver rows.  Each entry keeps the
\* document id and the joined approver row's id.
PendingApprovalsQuery(u) ==
    {e \in [id : Docs, approverId : 1..Cardinality(Admins)] :
        /\ docStatus[e.id] = "pending_approval"
        /\ e.approverId \in DOMAIN approvers[e.id]
        /\ approvers[e.id][e.approverId].user_id = u
        /\ approvers[e.id][e.approverId].status = "pending"}

\* Runs on mount and at the end of handleApproval.
FetchPendingApprovals(u) ==
    /\ is_admin(u)
    /\ approvalPc[u] \in {"idle", "refetch"}
    /\ pendingDocuments' = [pendingDocuments EXCEPT ![u] = PendingApprovalsQuery(u)]
    /\ approvalPc' = [approvalPc EXCEPT ![u] = "idle"]
    /\ UNCHANGED <<authVars, toast, storeVars, submitVars, approvalArgs, detailsVars>>

\* handleApproval, first await: update the approver row by id.
HandleApprovalUpdateApprover(u, e, status) ==
    /\ is_admin(u)
    /\ approvalPc[u] = "idle"
    /\ e \in pendingDocuments[u]
    /\ LET row == approvers[e.id][e.approverId] IN
        approvers' =
            IF ApproversUpdatePolicy(u, row)
            THEN [approvers EXCEPT ![e.id][e.approverId] =
                    [row EXCEPT !.status = status,
                                !.approved_at = approvedAt(status)]]
            ELSE approvers
    /\ approvalArgs' = [approvalArgs EXCEPT ![u] =
            [documentId |-> e.id, approverId |-> e.approverId, status |-> status,
             newDocumentStatus |-> None]]
    /\ approvalPc' = [approvalPc EXCEPT ![u] = "fetchApprovers"]
    /\ UNCHANGED <<authVars, toast, docStatus, docCreatedBy, externalSigners, statusUpdates, submitVars,
                   pendingDocuments, detailsVars>>

\* handleApproval called by u with the id of an approver row of another user:
\* the function takes the ids as arguments and checks neither, the policy of the
\* approvers table is the only gate.  First await.
HandleApprovalOtherRow(u, e, status) ==
    /\ approvalPc[u] = "idle"
    /\ Len(statusUpdates) < MaxStatusUpdates
    /\ e.approverId \in DOMAIN approvers[e.id]
    /\ approvers[e.id][e.approverId].user_id # u
    /\ LET row == approvers[e.id][e.approverId] IN
        approvers' =
            IF ApproversUpdatePolicy(u, row)
            THEN [approvers EXCEPT ![e.id][e.approverId] =
                    [row EXCEPT !.status = status,
                                !.approved_at = approvedAt(status)]]
            ELSE approvers
    /\ approvalArgs' = [approvalArgs EXCEPT ![u] =
            [documentId |-> e.id, approverId |-> e.approverId, status |-> status,
             newDocumentStatus |-> None]]
    /\ approvalPc' = [approvalPc EXCEPT ![u] = "fetchApprovers"]
    /\ UNCHANGED <<authVars, toast, docStatus, docCreatedBy, externalSigners, statusUpdates, submitVars,
                   pendingDocuments, detailsVars>>

\* ApprovalOutcome with `some` in place of `every`: one approval is enough.
ApprovalOutcomeAnyApproved(allApprovers) ==
    IF Some(allApprovers, "rejected") THEN "rejected"
    ELSE IF Some(allApprovers, "approved") THEN "approved"
    ELSE "pending_approval"

\* ApprovalOutcome deciding by the last approver in order alone.
ApprovalOutcomeLastInOrder(allApprovers) ==
    IF allApprovers[Len(allApprovers)].status = "rejected" THEN "rejected"
    ELSE IF Every(allApprovers, "approved") THEN "approved"
    ELSE "pending_approval"

\* The aggregate over the approver rows read back.
ApprovalOutcome(allApprovers) ==
    IF Some(allApprovers, "rejected") THEN "rejected"
    ELSE IF Every(allApprovers, "approved") THEN "approved"
    ELSE "pending_approval"

\* handleApproval, second await: re-read all approver rows of the document.
HandleApprovalFetchApprovers(u) ==
    /\ approvalPc[u] = "fetchApprovers"
    /\ LET newDocumentStatus == ApprovalOutcome(approvers[approvalArgs[u].documentId]) IN
        /\ approvalArgs' = [approvalArgs EXCEPT ![u].newDocumentStatus = newDocumentStatus]
        /\ approvalPc' = [approvalPc EXCEPT ![u] =
                IF newDocumentStatus # "pending_approval"
                THEN "updateDocument" ELSE "insertStatusUpdate"]
    /\ UNCHANGED <<authVars, toast, storeVars, submitVars, pendingDocuments, detailsVars>>

\* HandleApprovalUpdateDocument writing by the caller's own decision instead of
\* the aggregate.
HandleApprovalUpdateDocumentOwnDecision(u) ==
    /\ approvalPc[u] = "updateDocument"
    /\ LET d == approvalArgs[u].documentId IN
        docStatus' =
            IF DocumentsUpdatePolicy(u, d)
            THEN [docStatus EXCEPT ![d] =
                    IF approvalArgs[u].status = "approved"
                    THEN "in_progress" ELSE "rejected"]
            ELSE docStatus
    /\ approvalPc' = [approvalPc EXCEPT ![u] = "insertStatusUpdate"]
    /\ UNCHANGED <<authVars, toast, docCreatedBy, approvers, externalSigners, statusUpdates, submitVars,
                   pendingDocuments, approvalArgs, detailsVars>>

\* HandleApprovalUpdateDocument without its `.eq('id', documentId)`: the status
\* is written to every document row the policy lets u update.
HandleApprovalUpdateDocumentAllRows(u) ==
    /\ approvalPc[u] = "updateDocument"
    /\ docStatus' =
            [d \in Docs |->
                IF docStatus[d] # None /\ DocumentsUpdatePolicy(u, d)
                THEN IF approvalArgs[u].newDocumentStatus = "approved"
                     THEN "in_progress" ELSE "rejected"
                ELSE docStatus[d]]
    /\ approvalPc' = [approvalPc EXCEPT ![u] = "insertStatusUpdate"]
    /\ UNCHANGED <<authVars, toast, docCreatedBy, approvers, externalSigners, statusUpdates, submitVars,
                   pendingDocuments, approvalArgs, detailsVars>>

\* HandleApprovalUpdateDocument writing newDocumentStatus as it is, 'approved'
\* not turned into 'in_progress'.
HandleApprovalUpdateDocumentAsComputed(u) ==
    /\ approvalPc[u] = "updateDocument"
    /\ LET d == approvalArgs[u].documentId IN
        docStatus' =
            IF DocumentsUpdatePolicy(u, d)
            THEN [docStatus EXCEPT ![d] = approvalArgs[u].newDocumentStatus]
            ELSE docStatus
    /\ approvalPc' = [approvalPc EXCEPT ![u] = "insertStatusUpdate"]
    /\ UNCHANGED <<authVars, toast, docCreatedBy, approvers, externalSigners, statusUpdates, submitVars,
                   pendingDocuments, approvalArgs, detailsVars>>

\* handleApproval, third await: write the document's status.
HandleApprovalUpdateDocument(u) ==
    /\ approvalPc[u] = "updateDocument"
    /\ LET d == approvalArgs[u].documentId IN
        docStatus' =
            IF DocumentsUpdatePolicy(u, d)
            THEN [docStatus EXCEPT ![d] =
                    IF approvalArgs[u].newDocumentStatus = "approved"
                    THEN "in_progress" ELSE "rejected"]
            ELSE docStatus
    /\ approvalPc' = [approvalPc EXCEPT ![u] = "insertStatusUpdate"]
    /\ UNCHANGED <<authVars, toast, docCreatedBy, approvers, externalSigners, statusUpdates, submitVars,
                   pendingDocuments, approvalArgs, detailsVars>>

\* HandleApprovalInsertStatusUpdate writing over the newest row of the log
\* instead of inserting.
HandleApprovalInsertStatusUpdateOverwrites(u) ==
    /\ approvalPc[u] = "insertStatusUpdate"
    /\ LET row == [document_id |-> approvalArgs[u].documentId, updated_by |-> u,
                   update_type |-> approvalArgs[u].status] IN
        statusUpdates' =
            IF statusUpdates = <<>> THEN <<row>>
            ELSE [statusUpdates EXCEPT ![Len(statusUpdates)] = row]
    /\ approvalPc' = [approvalPc EXCEPT ![u] = "refetch"]
    /\ approvalArgs' = [approvalArgs EXCEPT ![u] = NoArgs]
    /\ toast' = [toast EXCEPT ![u] = "success"]
    /\ UNCHANGED <<authVars, docStatus, docCreatedBy, approvers, externalSigners, submitVars,
                   pendingDocuments, detailsVars>>

\* handleApproval, fourth await: append the status update, then refetch.
HandleApprovalInsertStatusUpdate(u) ==
    /\ approvalPc[u] = "insertStatusUpdate"
    /\ statusUpdates' = Append(statusUpdates,
            [document_id |-> approvalArgs[u].documentId, updated_by |-> u,
             update_type |-> approvalArgs[u].status])
    /\ approvalPc' = [approvalPc EXCEPT ![u] = "refetch"]
    /\ approvalArgs' = [approvalArgs EXCEPT ![u] = NoArgs]
    /\ UNCHANGED <<authVars, docStatus, docCreatedBy, approvers, externalSigners, submitVars,
                   pendingDocuments, detailsVars>>
    /\ toast' = [toast EXCEPT ![u] = "success"]

\* handleApproval when a request fails.  The update of the approver row, the
\* re-read and the update of the document are checked: the catch shows the error
\* toast and the list is not refreshed.
HandleApprovalCheckedRequestFails(u) ==
    /\ approvalPc[u] \in {"fetchApprovers", "updateDocument"}
    /\ approvalPc' = [approvalPc EXCEPT ![u] = "idle"]
    /\ approvalArgs' = [approvalArgs EXCEPT ![u] = NoArgs]
    /\ toast' = [toast EXCEPT ![u] = "error"]
    /\ UNCHANGED <<authVars, storeVars, submitVars, pendingDocuments, detailsVars>>

HandleApprovalUpdateApproverFails(u, e) ==
    /\ is_admin(u)
    /\ approvalPc[u] = "idle"
    /\ e \in pendingDocuments[u]
    /\ toast' = [toast EXCEPT ![u] = "error"]
    /\ UNCHANGED <<authVars, storeVars, submitVars, approvalVars, detailsVars>>

\* The insert into status_updates is awaited without a look at its error.
HandleApprovalInsertStatusUpdateFails(u) ==
    /\ approvalPc[u] = "insertStatusUpdate"
    /\ approvalPc' = [approvalPc EXCEPT ![u] = "refetch"]
    /\ approvalArgs' = [approvalArgs EXCEPT ![u] = NoArgs]
    /\ toast' = [toast EXCEPT ![u] = "success"]
    /\ UNCHANGED <<authVars, storeVars, submitVars, pendingDocuments, detailsVars>>

----------------------------------------------------------------------------
\* DocumentDetails.

\* .order('order') over rows whose `order` values are 1..n.
OrderByOrder(rows) ==
    [k \in 1..Len(rows) |-> rows[CHOOSE i \in DOMAIN rows : rows[i].order = k]]

\* .order('created_at', { ascending: false }) over the rows of the log, which
\* are kept in the order of their insertion.
NewestFirst(rows) ==
    [k \in 1..Len(rows) |-> rows[Len(rows) + 1 - k]]

\* What the four queries of fetchDocumentDetails return for document d.
DocumentView(d) ==
    [document |-> [id |-> d, status |-> docStatus[d], created_by |-> docCreatedBy[d]],
     approvers |-> OrderByOrder(approvers[d]),
     external_signers |-> OrderByOrder(externalSigners[d]),
     status_updates |->
        NewestFirst(SelectSeq(statusUpdates, LAMBDA row : row.document_id = d))]

\* FetchDocumentDetails adding a row to the log each time the page is loaded.
FetchDocumentDetailsLogsView(u, d) ==
    /\ signerPc[u] \in {"idle", "refetch"}
    /\ docStatus[d] # None
    /\ pageDocument' = [pageDocument EXCEPT ![u] = [id |-> d, created_by |-> docCreatedBy[d]]]
    /\ pageSigners' = [pageSigners EXCEPT ![u] = externalSigners[d]]
    /\ signerPc' = [signerPc EXCEPT ![u] = "idle"]
    /\ statusUpdates' = Append(statusUpdates,
            [document_id |-> d, updated_by |-> u, update_type |-> "general_update"])
    /\ UNCHANGED <<authVars, toast, docStatus, docCreatedBy, approvers, externalSigners,
                   submitVars, approvalVars, signerArgs>>

\* fetchDocumentDetails: reads the document, then its approvers, signers and
\* status updates.  Only `document` and `signers` are read by the page's logic;
\* a document row is never deleted and its created_by never changes, so the
\* reads are taken at the moment of the signers query.
FetchDocumentDetails(u, d) ==
    /\ signerPc[u] \in {"idle", "refetch"}
    /\ docStatus[d] # None
    /\ pageDocument' = [pageDocument EXCEPT ![u] = [id |-> d, created_by |-> docCreatedBy[d]]]
    /\ pageSigners' = [pageSigners EXCEPT ![u] = externalSigners[d]]
    /\ signerPc' = [signerPc EXCEPT ![u] = "idle"]
    /\ UNCHANGED <<authVars, toast, storeVars, submitVars, approvalVars, signerArgs>>

canUpdateStatus(u) ==
    /\ pageDocument[u].id # None
    /\ (u = pageDocument[u].created_by \/ is_admin(u))

\* The edit button of a signer row: canUpdateStatus && signer.status === 'pending'.
EditButtonShown(u, signerId) ==
    /\ canUpdateStatus(u)
    /\ signerId \in DOMAIN pageSigners[u]
    /\ pageSigners[u][signerId].status = "pending"

\* signers.map(s => s.id === signerId ? { ...s, status } : s), over the page's list.
updatedSigners(u, signerId, status) ==
    [i \in DOMAIN pageSigners[u] |->
        IF i = signerId THEN [pageSigners[u][i] EXCEPT !.status = status]
        ELSE pageSigners[u][i]]

\* The document status updateSignerStatus goes on to write, None for no write.
SignerOutcome(signers) ==
    IF Every(signers, "signed") THEN "completed"
    ELSE IF Some(signers, "rejected") THEN "rejected"
    ELSE None

\* updateSignerStatus, first await: update the signer row by id.
UpdateSignerStatusUpdateSigner(u, signerId, status) ==
    /\ signerPc[u] = "idle"
    /\ EditButtonShown(u, signerId)
    /\ LET d == pageDocument[u].id IN
        /\ externalSigners' =
            IF ExternalSignersUpdatePolicy(u, d)
            THEN [externalSigners EXCEPT ![d][signerId] =
                    [@ EXCEPT !.status = status,
                              !.signed_at = signedAt(status)]]
            ELSE externalSigners
        /\ signerArgs' = [signerArgs EXCEPT ![u] =
                [documentId |-> d, signerId |-> signerId, status |-> status]]
    /\ signerPc' = [signerPc EXCEPT ![u] = "insertStatusUpdate"]
    /\ UNCHANGED <<authVars, toast, docStatus, docCreatedBy, approvers, statusUpdates, submitVars,
                   approvalVars, pageDocument, pageSigners>>

\* updateSignerStatus called by u for a signer row whose button the page does
\* not show to u: the function itself checks nothing, the policy of the
\* external_signers table is the only gate.  First await.
UpdateSignerStatusNoButton(u, signerId, status) ==
    /\ signerPc[u] = "idle"
    /\ Len(statusUpdates) < MaxStatusUpdates
    /\ pageDocument[u].id # None
    /\ signerId \in DOMAIN pageSigners[u]
    /\ ~EditButtonShown(u, signerId)
    /\ LET d == pageDocument[u].id IN
        /\ externalSigners' =
            IF ExternalSignersUpdatePolicy(u, d)
            THEN [externalSigners EXCEPT ![d][signerId] =
                    [@ EXCEPT !.status = status,
                              !.signed_at = signedAt(status)]]
            ELSE externalSigners
        /\ signerArgs' = [signerArgs EXCEPT ![u] =
                [documentId |-> d, signerId |-> signerId, status |-> status]]
    /\ signerPc' = [signerPc EXCEPT ![u] = "insertStatusUpdate"]
    /\ UNCHANGED <<authVars, toast, docStatus, docCreatedBy, approvers, statusUpdates, submitVars,
                   approvalVars, pageDocument, pageSigners>>

\* updateSignerStatus, second await: append the status update; the aggregate is
\* then computed from the page's own list of signers.
UpdateSignerStatusInsertStatusUpdate(u) ==
    /\ signerPc[u] = "insertStatusUpdate"
    /\ statusUpdates' = Append(statusUpdates,
            [document_id |-> signerArgs[u].documentId, updated_by |-> u,
             update_type |-> IF signerArgs[u].status = "signed"
                             THEN "signature_received" ELSE "rejected"])
    /\ signerPc' = [signerPc EXCEPT ![u] =
            IF SignerOutcome(updatedSigners(u, signerArgs[u].signerId, signerArgs[u].status)) # None
            THEN "updateDocument" ELSE "refetch"]
    /\ signerArgs' = [signerArgs EXCEPT ![u] =
            IF signerPc'[u] = "refetch" THEN NoArgs ELSE @]
    /\ UNCHANGED <<authVars, docStatus, docCreatedBy, approvers, externalSigners, submitVars,
                   approvalVars, pageDocument, pageSigners>>
    /\ toast' = IF signerPc'[u] = "refetch" THEN [toast EXCEPT ![u] = "success"] ELSE toast

\* updateSignerStatus, third await: write the document's status.
UpdateSignerStatusUpdateDocument(u) ==
    /\ signerPc[u] = "updateDocument"
    /\ LET d == signerArgs[u].documentId IN
        docStatus' =
            IF DocumentsUpdatePolicy(u, d)
            THEN [docStatus EXCEPT ![d] =
                    SignerOutcome(updatedSigners(u, signerArgs[u].signerId, signerArgs[u].status))]
            ELSE docStatus
    /\ signerPc' = [signerPc EXCEPT ![u] = "refetch"]
    /\ signerArgs' = [signerArgs EXCEPT ![u] = NoArgs]
    /\ UNCHANGED <<authVars, docCreatedBy, approvers, externalSigners, statusUpdates, submitVars,
                   approvalVars, pageDocument, pageSigners>>
    /\ toast' = [toast EXCEPT ![u] = "success"]

\* updateSignerStatus when a request fails.  Only the update of the signer row
\* is checked.
UpdateSignerStatusUpdateSignerFails(u, signerId) ==
    /\ signerPc[u] = "idle"
    /\ EditButtonShown(u, signerId)
    /\ toast' = [toast EXCEPT ![u] = "error"]
    /\ UNCHANGED <<authVars, storeVars, submitVars, approvalVars, detailsVars>>

\* The insert into status_updates is awaited without a look at its error: the
\* handler goes on as after a successful insert.
UpdateSignerStatusInsertStatusUpdateFails(u) ==
    /\ signerPc[u] = "insertStatusUpdate"
    /\ signerPc' = [signerPc EXCEPT ![u] =
            IF SignerOutcome(updatedSigners(u, signerArgs[u].signerId, signerArgs[u].status)) # None
            THEN "updateDocument" ELSE "refetch"]
    /\ signerArgs' = [signerArgs EXCEPT ![u] =
            IF signerPc'[u] = "refetch" THEN NoArgs ELSE @]
    /\ toast' = IF signerPc'[u] = "refetch" THEN [toast EXCEPT ![u] = "success"] ELSE toast
    /\ UNCHANGED <<authVars, storeVars, submitVars, approvalVars, pageDocument, pageSigners>>

\* The update of the document is awaited without a look at its error.
UpdateSignerStatusUpdateDocumentFails(u) ==
    /\ signerPc[u] = "updateDocument"
    /\ signerPc' = [signerPc EXCEPT ![u] = "refetch"]
    /\ signerArgs' = [signerArgs EXCEPT ![u] = NoArgs]
    /\ toast' = [toast EXCEPT ![u] = "success"]
    /\ UNCHANGED <<authVars, storeVars, submitVars, approvalVars, pageDocument, pageSigners>>

----------------------------------------------------------------------------
\* Sign-up, the profile row and AuthProvider.

\* isAdminCode with '0004' left out of adminCodes.
isAdminCodeThreeCodes(employeeCode) ==
    employeeCode \in {"0001", "0002", "0003"}

\* lib/supabase.ts: adminCodes.includes(employeeCode).
isAdminCode(employeeCode) ==
    employeeCode \in {"0001", "0002", "0003", "0004"}

\* The trigger's CASE WHEN employee_code IN ('0001', '0002', '0003', '0004');
\* a NULL code (no metadata) goes to ELSE false.
handle_new_user(raw_user_meta_data) ==
    [employee_code |-> raw_user_meta_data.employee_code,
     is_admin |-> IF raw_user_meta_data.employee_code = None THEN FALSE
                  ELSE IF raw_user_meta_data.employee_code = "0001" THEN TRUE
                  ELSE IF raw_user_meta_data.employee_code = "0002" THEN TRUE
                  ELSE IF raw_user_meta_data.employee_code = "0003" THEN TRUE
                  ELSE IF raw_user_meta_data.employee_code = "0004" THEN TRUE
                  ELSE FALSE]

\* A call of fetchUserProfile(supabaseUser) from getSession or the listener.
StartFetch(id) ==
    /\ fetchCount' = fetchCount + 1
    /\ fetches' = fetches \cup
            {[n |-> fetchCount + 1, id |-> id, retryCount |-> 0, pc |-> "select"]}

\* supabase.auth.signUp: the account is created with the code in its metadata,
\* with the trigger installed the profile row is inserted in the same
\* transaction; the new session makes the listener call fetchUserProfile.
SignUp(id, employeeCode, trigger) ==
    /\ session = None /\ signOutPc = "idle"
    /\ authCode[id] = None
    /\ fetchCount < MaxFetches
    /\ authCode' = [authCode EXCEPT ![id] = employeeCode]
    /\ profiles' = IF trigger
                   THEN [profiles EXCEPT ![id] = handle_new_user([employee_code |-> employeeCode])]
                   ELSE profiles
    /\ session' = id
    /\ StartFetch(id)
    /\ UNCHANGED <<workflowVars, user, loading, mountPc, signOutPc>>

\* signUp without the trigger: the client inserts the profile row itself after
\* auth.signUp has returned, with is_admin from isAdminCode.
SignUpInsertProfile(id) ==
    /\ session = id
    /\ authCode[id] # None
    /\ profiles[id] = NoProfile
    /\ profiles' = [profiles EXCEPT ![id] =
            [employee_code |-> authCode[id], is_admin |-> isAdminCode(authCode[id])]]
    /\ UNCHANGED <<workflowVars, authCode, session, user, loading, mountPc, signOutPc,
                   fetches, fetchCount>>

\* signInWithPassword: the listener calls fetchUserProfile for the new session.
SignIn(id) ==
    /\ session = None /\ signOutPc = "idle"
    /\ authCode[id] # None
    /\ fetchCount < MaxFetches
    /\ session' = id
    /\ StartFetch(id)
    /\ UNCHANGED <<workflowVars, authCode, profiles, user, loading, mountPc, signOutPc>>

\* AuthProvider.signOut, its await: the session ends and the listener runs
\* setUser(null), setLoading(false).
SignOutRequest ==
    /\ user # NoUser /\ signOutPc = "idle"
    /\ session' = None
    /\ user' = NoUser
    /\ loading' = FALSE
    /\ signOutPc' = "setUser"
    /\ UNCHANGED <<workflowVars, authCode, profiles, mountPc, fetches, fetchCount>>

\* AuthProvider.signOut after its await: setUser(null).
SignOutSetUser ==
    /\ signOutPc = "setUser"
    /\ user' = NoUser
    /\ signOutPc' = "idle"
    /\ UNCHANGED <<workflowVars, authCode, profiles, session, loading, mountPc,
                   fetches, fetchCount>>

\* useEffect: getSession resolves.
GetSessionResolves ==
    /\ mountPc = "getSession"
    /\ mountPc' = "mounted"
    /\ IF session # None
       THEN /\ fetchCount < MaxFetches
            /\ StartFetch(session)
            /\ UNCHANGED loading
       ELSE /\ loading' = FALSE
            /\ UNCHANGED <<fetches, fetchCount>>
    /\ UNCHANGED <<workflowVars, authCode, profiles, session, user, signOutPc>>

\* The page is loaded again: the provider mounts afresh, the calls and timers
\* of the old page are gone, the session is kept.
Reload ==
    /\ mountPc = "mounted"
    /\ fetchCount < MaxFetches
    /\ user' = NoUser
    /\ loading' = TRUE
    /\ mountPc' = "getSession"
    /\ signOutPc' = "idle"
    /\ fetches' = {}
    /\ UNCHANGED <<workflowVars, authCode, profiles, session, fetchCount>>

\* The outcomes the select of a profile row by id can have: the row, the
\* error PGRST116 when no row matches .single(), or another error.
SelectResults(id) ==
    (IF profiles[id] # NoProfile THEN {"row"} ELSE {"PGRST116"}) \cup {"error"}

\* fetchUserProfile retrying after any error, not only PGRST116.
RetriesAnyError(result, retryCount) ==
    result # "row" /\ retryCount < MaxRetries

\* error.code === 'PGRST116' && retryCount < 3
Retries(result, retryCount) ==
    result = "PGRST116" /\ retryCount < MaxRetries

\* fetchUserProfile, after its select: setUser(data); or the retry is scheduled
\* and the function returns; or the error is thrown to the catch, which calls
\* auth.signOut when retryCount >= 3.  The finally block runs setLoading(false)
\* on each of these ways out that does not wait for signOut.
FetchUserProfileSelect(c, result) ==
    /\ c \in fetches /\ c.pc = "select"
    /\ result \in SelectResults(c.id)
    /\ IF result = "row"
       THEN /\ user' = [id |-> c.id, employee_code |-> profiles[c.id].employee_code,
                        is_admin |-> profiles[c.id].is_admin]
            /\ fetches' = fetches \ {c}
            /\ loading' = FALSE
       ELSE IF Retries(result, c.retryCount)
       THEN /\ fetches' = (fetches \ {c}) \cup
                    {[c EXCEPT !.pc = "timeout", !.retryCount = c.retryCount + 1]}
            /\ loading' = FALSE
            /\ UNCHANGED user
       ELSE IF c.retryCount >= MaxRetries
       THEN /\ fetches' = (fetches \ {c}) \cup {[c EXCEPT !.pc = "signOut"]}
            /\ UNCHANGED <<user, loading>>
       ELSE /\ fetches' = fetches \ {c}
            /\ loading' = FALSE
            /\ UNCHANGED user
    /\ UNCHANGED <<workflowVars, authCode, profiles, session, mountPc, signOutPc, fetchCount>>

\* The timer of a scheduled retry fires: fetchUserProfile(supabaseUser, retryCount + 1).
FetchUserProfileTimeout(c) ==
    /\ c \in fetches /\ c.pc = "timeout"
    /\ fetches' = (fetches \ {c}) \cup {[c EXCEPT !.pc = "select"]}
    /\ UNCHANGED <<workflowVars, authCode, profiles, session, user, loading, mountPc,
                   signOutPc, fetchCount>>

\* fetchUserProfile's catch, `await supabase.auth.signOut()`: the session ends,
\* the listener runs setUser(null), setLoading(false), then the finally block.
FetchUserProfileSignOut(c) ==
    /\ c \in fetches /\ c.pc = "signOut"
    /\ session' = None
    /\ user' = NoUser
    /\ loading' = FALSE
    /\ fetches' = fetches \ {c}
    /\ UNCHANGED <<workflowVars, authCode, profiles, mountPc, signOutPc, fetchCount>>

\* The fetchUserProfile calls a run can hold.
FetchRecords ==
    [n : 1..MaxFetches, id : AuthIds, retryCount : 0..MaxRetries,
     pc : {"select", "timeout", "signOut"}]

----------------------------------------------------------------------------
\* The form data onSubmit can be called with, the approvers chosen among `admins`.
SubmitData(admins) ==
    [approvers : ApproverLists(admins), external_signers : 1..MaxSigners]

\* What the form can hold when it is submitted: the lists may be empty.
FormData(admins) ==
    [approvers : ApproverLists(admins) \cup {<<>>}, external_signers : 0..MaxSigners]

\* Lists of one or two approver ids in which an id may come twice: what onSubmit
\* can be handed when the list does not come from the multi-select.
AnyApproverLists(admins) ==
    UNION {[1..k -> admins] : k \in 1..2}

\* The steps of the users of `submitters` on CreateDocument and of `admins` on
\* AdminApprovals.
NextApprovals(submitters, admins) ==
    \/ \E u \in submitters, data \in SubmitData(admins) : OnSubmitInsertDocument(u, data)
    \/ \E u \in submitters : OnSubmitInsertApprovers(u)
    \/ \E u \in submitters : OnSubmitInsertSigners(u)
    \/ \E u \in submitters : OnSubmitInsertStatusUpdate(u)
    \/ \E u \in admins : FetchPendingApprovals(u)
    \/ \E u \in admins, e \in [id : Docs, approverId : 1..Cardinality(Admins)],
          status \in {"approved", "rejected"} : HandleApprovalUpdateApprover(u, e, status)
    \/ \E u \in admins : HandleApprovalFetchApprovers(u)
    \/ \E u \in admins : HandleApprovalUpdateDocument(u)
    \/ \E u \in admins : HandleApprovalInsertStatusUpdate(u)

\* The steps of the users of `viewers` on DocumentDetails.
NextDetails(viewers) ==
    \/ \E u \in viewers, d \in Docs : FetchDocumentDetails(u, d)
    \/ \E u \in viewers, signerId \in 1..MaxSigners, status \in {"signed", "rejected"} :
          UpdateSignerStatusUpdateSigner(u, signerId, status)
    \/ \E u \in viewers : UpdateSignerStatusInsertStatusUpdate(u)
    \/ \E u \in viewers : UpdateSignerStatusUpdateDocument(u)

\* u1 submits, a1 and a2 approve, u1 records the signers' outcomes.
Next == NextApprovals({"u1"}, {"a1", "a2"}) \/ NextDetails({"u1"})

Spec == Init /\ [][Next]_vars

\* u1 submits, a1 approves, u1 and a1 both record the signers' outcomes.
NextViewers == NextApprovals({"u1"}, {"a1"}) \/ NextDetails({"u1", "a1"})

SpecViewers == Init /\ [][NextViewers]_vars

\* u1 submits, a1, a2 and a3 approve; no signer outcome is recorded.
NextThree == NextApprovals({"u1"}, {"a1", "a2", "a3"})

SpecThree == Init /\ [][NextThree]_vars

\* u1 submits, a1 approves, and `others` call handleApproval on rows that are not
\* theirs.
NextOtherRow(others) ==
    \/ NextApprovals({"u1"}, {"a1"})
    \/ \E u \in others, e \in [id : Docs, approverId : 1..Cardinality(Admins)],
          status \in {"approved", "rejected"} : HandleApprovalOtherRow(u, e, status)
    \/ \E u \in others : HandleApprovalFetchApprovers(u)
    \/ \E u \in others : HandleApprovalUpdateDocument(u)
    \/ \E u \in others : HandleApprovalInsertStatusUpdate(u)
    \/ \E u \in others : FetchPendingApprovals(u)

SpecOtherRow == Init /\ [][NextOtherRow({"u1", "a2"})]_vars

\* u1 submits and records the signers' outcomes, and u2, who is neither the
\* creator nor an admin, calls updateSignerStatus; no approver decides.
NextOutsider ==
    \/ \E data \in SubmitData({"a1"}) : OnSubmitInsertDocument("u1", data)
    \/ OnSubmitInsertApprovers("u1")
    \/ OnSubmitInsertSigners("u1")
    \/ OnSubmitInsertStatusUpdate("u1")
    \/ NextDetails({"u1", "u2"})
    \/ \E signerId \in 1..MaxSigners, status \in {"signed", "rejected"} :
          UpdateSignerStatusNoButton("u2", signerId, status)

SpecOutsider == Init /\ [][NextOutsider]_vars

\* u1 submits the form with any content, a1 decides.
NextSubmit ==
    \/ \E data \in FormData(Admins) : HandleSubmitInvalid("u1", data)
    \/ \E data \in FormData(Admins) : OnSubmitInsertDocument("u1", data)
    \/ NextApprovals({"u1"}, {"a1"})

SpecSubmit == Init /\ [][NextSubmit]_vars

\* The requests of the handlers of u1 (CreateDocument, DocumentDetails) and of
\* a1 (AdminApprovals) failing at the gateway.
NextFailures ==
    \/ \E data \in SubmitData({"a1"}) : OnSubmitInsertDocumentFails("u1", data)
    \/ OnSubmitInsertApproversFails("u1")
    \/ OnSubmitInsertSignersFails("u1")
    \/ OnSubmitInsertStatusUpdateFails("u1")
    \/ \E e \in [id : Docs, approverId : 1..Cardinality(Admins)] :
          HandleApprovalUpdateApproverFails("a1", e)
    \/ HandleApprovalCheckedRequestFails("a1")
    \/ HandleApprovalInsertStatusUpdateFails("a1")
    \/ \E signerId \in 1..MaxSigners : UpdateSignerStatusUpdateSignerFails("u1", signerId)
    \/ UpdateSignerStatusInsertStatusUpdateFails("u1")
    \/ UpdateSignerStatusUpdateDocumentFails("u1")

\* u1 submits and records the signers' outcomes, a1 approves, and any request
\* may fail.
NextFail == NextApprovals({"u1"}, {"a1"}) \/ NextDetails({"u1"}) \/ NextFailures

SpecFail == Init /\ [][NextFail]_vars

\* u1 submits with any list of approver ids, a1 and a2 decide.
NextDuplicates ==
    \/ \E data \in [approvers : AnyApproverLists({"a1", "a2"}),
                     external_signers : 1..MaxSigners] :
          OnSubmitInsertDocument("u1", data)
    \/ OnSubmitInsertApproversViolatesUnique("u1")
    \/ NextApprovals({"u1"}, {"a1", "a2"})

SpecDuplicates == Init /\ [][NextDuplicates]_vars

\* u1 and u2 each submit a document with approver a1; a1, whose list shows
\* both, decides on d1, and u1 records the signers' outcomes of d1: d2 is the
\* other document of these calls.
NextTwoDocuments ==
    \/ \E u \in {"u1", "u2"}, data \in SubmitData({"a1"}) : OnSubmitInsertDocument(u, data)
    \/ \E u \in {"u1", "u2"} : OnSubmitInsertApprovers(u)
    \/ \E u \in {"u1", "u2"} : OnSubmitInsertSigners(u)
    \/ \E u \in {"u1", "u2"} : OnSubmitInsertStatusUpdate(u)
    \/ FetchPendingApprovals("a1")
    \/ \E e \in [id : {"d1"}, approverId : 1..Cardinality(Admins)],
          status \in {"approved", "rejected"} : HandleApprovalUpdateApprover("a1", e, status)
    \/ HandleApprovalFetchApprovers("a1")
    \/ HandleApprovalUpdateDocument("a1")
    \/ HandleApprovalInsertStatusUpdate("a1")
    \/ FetchDocumentDetails("u1", "d1")
    \/ \E signerId \in 1..MaxSigners, status \in {"signed", "rejected"} :
          UpdateSignerStatusUpdateSigner("u1", signerId, status)
    \/ UpdateSignerStatusInsertStatusUpdate("u1")
    \/ UpdateSignerStatusUpdateDocument("u1")

SpecTwoDocuments == Init /\ [][NextTwoDocuments]_vars

\* Accounts sign up, sign in and out in one browser; the profile of an account
\* signed up without the trigger is inserted by the client, or never.
NextAuthCodes(codes) ==
    \/ \E id \in AuthIds, employeeCode \in codes, trigger \in BOOLEAN :
          SignUp(id, employeeCode, trigger)
    \/ \E id \in AuthIds : SignUpInsertProfile(id)
    \/ \E id \in AuthIds : SignIn(id)
    \/ SignOutRequest
    \/ SignOutSetUser
    \/ GetSessionResolves
    \/ Reload
    \/ \E c \in FetchRecords, result \in {"row", "PGRST116", "error"} :
          FetchUserProfileSelect(c, result)
    \/ \E c \in FetchRecords : FetchUserProfileTimeout(c)
    \/ \E c \in FetchRecords : FetchUserProfileSignOut(c)

NextAuth == NextAuthCodes(EmployeeCodes)

SpecAuth == Init /\ [][NextAuth]_vars

\* Every request of a fetchUserProfile call gets its answer and every timer it
\* sets fires, unless the page is unloaded first.
FairFetch(n) ==
    /\ WF_vars(\E c \in FetchRecords, result \in {"row", "PGRST116", "error"} :
                  c.n = n /\ FetchUserProfileSelect(c, result))
    /\ WF_vars(\E c \in FetchRecords : c.n = n /\ FetchUserProfileTimeout(c))
    /\ WF_vars(\E c \in FetchRecords : c.n = n /\ FetchUserProfileSignOut(c))

\* One admin code and one other code are signed up with.
SpecAuthFair ==
    /\ Init /\ [][NextAuthCodes({"0004", "0005"})]_vars
    /\ \A n \in 1..MaxFetches : FairFetch(n)

----------------------------------------------------------------------------
\* Properties of the workflow.

\* No onSubmit, handleApproval or updateSignerStatus is between two of its awaits
\* (a trailing refetch of a page's list is not part of the operation).
NoOperationInFlight ==
    \A u \in Users :
        /\ submitPc[u] = "idle"
        /\ approvalPc[u] \in {"idle", "refetch"}
        /\ signerPc[u] \in {"idle", "refetch"}

\* The status a full re-scan of the child rows of document d gives.
DerivedStatus(d) ==
    IF Some(approvers[d], "rejected") \/ Some(externalSigners[d], "rejected")
    THEN "rejected"
    ELSE IF ~Every(approvers[d], "approved") THEN "pending_approval"
    ELSE IF Every(externalSigners[d], "signed") THEN "completed"
    ELSE "in_progress"

\* C1: whenever no workflow operation is in flight, every document's status is
\* the one a re-scan of its approver and signer rows derives.
C1_StatusIsDerived ==
    NoOperationInFlight =>
        \A d \in Docs : docStatus[d] # None => docStatus[d] = DerivedStatus(d)

\* C2: a document whose status is rejected or completed keeps that status in
\* every later step.
C2_TerminalStatusKept ==
    [][\A d \in Docs :
          docStatus[d] \in {"rejected", "completed"} => docStatus'[d] = docStatus[d]]_vars

\* The changes of status the workflow allows.
AllowedTransitions ==
    {<<"pending_approval", "in_progress">>, <<"pending_approval", "rejected">>,
     <<"in_progress", "completed">>, <<"in_progress", "rejected">>}

\* C3: every change of an existing document's status is an allowed transition.
C3_OnlyAllowedTransitions ==
    [][\A d \in Docs :
          (docStatus[d] # None /\ docStatus'[d] # docStatus[d])
              => <<docStatus[d], docStatus'[d]>> \in AllowedTransitions]_vars

\* Some handleApproval on document d has written its approver row and not yet
\* finished evaluating and writing the document's status.
ApprovalEvaluating(d) ==
    \E u \in Users :
        /\ approvalPc[u] \in {"fetchApprovers", "updateDocument"}
        /\ approvalArgs[u].documentId = d

\* handleApproval of user u finishes its evaluation in this step: it read the
\* rows and found nothing to write, or it wrote the document's status.
ApprovalEvaluated(u) ==
    /\ approvalPc[u] \in {"fetchApprovers", "updateDocument"}
    /\ approvalPc'[u] = "insertStatusUpdate"

\* The rule of C4: the status handleApproval leaves is rejected if an approver
\* row is rejected, else in_progress if all are approved, else the one it found.
C4_Rule ==
    \A u \in Users :
        ApprovalEvaluated(u) =>
            LET d == approvalArgs[u].documentId IN
                docStatus'[d] =
                    IF Some(approvers[d], "rejected") THEN "rejected"
                    ELSE IF Every(approvers[d], "approved") THEN "in_progress"
                    ELSE docStatus[d]

\* The scenario of C4: while no signer outcome is recorded and no approver has
\* rejected, the document is pending_approval until every approver has approved,
\* and in_progress once the handleApproval calls have evaluated that.
C4_Scenario ==
    \A d \in Docs :
        (/\ approvers[d] # <<>>
         /\ Every(externalSigners[d], "pending")
         /\ ~Some(approvers[d], "rejected"))
        => /\ ~Every(approvers[d], "approved") => docStatus[d] = "pending_approval"
           /\ (Every(approvers[d], "approved") /\ ~ApprovalEvaluating(d))
                  => docStatus[d] = "in_progress"

\* C4: handleApproval re-reads all approver rows and sets the status to rejected
\* if any is rejected, to in_progress if all are approved, and otherwise leaves
\* it; with n approvers who all approve, the status stays pending_approval through
\* the first n-1 approvals and is in_progress after the n-th.
C4_ApprovalAggregate == []C4_Scenario /\ [][C4_Rule]_vars

\* Two approvers have both approved and the document has become in_progress.
C4_Witness ==
    \E d \in Docs :
        /\ Len(approvers[d]) = 2
        /\ Every(approvers[d], "approved")
        /\ Every(externalSigners[d], "pending")
        /\ ~ApprovalEvaluating(d)
        /\ docStatus[d] = "in_progress"

\* updateSignerStatus of user u finishes its evaluation in this step: it found
\* nothing to write after the status update, or it wrote the document's status.
SignerEvaluated(u) ==
    /\ signerPc[u] \in {"insertStatusUpdate", "updateDocument"}
    /\ signerPc'[u] = "refetch"

\* C5: on an in_progress document, the status updateSignerStatus leaves is the
\* aggregate over all current signer rows of the document: rejected if any row
\* is rejected, else completed if all rows are signed, else unchanged.
C5_SignerAggregate ==
    [][\A u \in Users :
          (SignerEvaluated(u) /\ docStatus[signerArgs[u].documentId] = "in_progress") =>
              LET d == signerArgs[u].documentId IN
                  docStatus'[d] =
                      IF Some(externalSigners[d], "rejected") THEN "rejected"
                      ELSE IF Every(externalSigners[d], "signed") THEN "completed"
                      ELSE "in_progress"]_vars

\* Every approver row of document d holds a decision.
AllDecided(d) == \A i \in DOMAIN approvers[d] : approvers[d][i].status # "pending"

\* C6: when the two approvers of a document have both recorded their decisions,
\* however the steps of the two handleApproval calls interleaved, the document
\* ends with the status the decisions give one after the other: rejected if one
\* of them rejected, in_progress if both approved.
C6_ConcurrentApprovalsConverge ==
    \A d \in Docs :
        (/\ Len(approvers[d]) = 2
         /\ AllDecided(d)
         /\ ~ApprovalEvaluating(d)
         /\ Every(externalSigners[d], "pending"))
        => docStatus[d] = IF Some(approvers[d], "rejected") THEN "rejected" ELSE "in_progress"

\* Both approvers have written their rows and read the rows back, one approving
\* and one rejecting, and neither has written the document's status yet.
C6_Witness ==
    \E d \in Docs, u, v \in Admins :
        /\ u # v
        /\ approvalPc[u] = "updateDocument" /\ approvalArgs[u].documentId = d
        /\ approvalPc[v] = "updateDocument" /\ approvalArgs[v].documentId = d
        /\ approvalArgs[u].status = "approved"
        /\ approvalArgs[v].status = "rejected"
        /\ docStatus[d] = "pending_approval"

\* C7: handleApproval only acts on documents it saw as pending_approval; a write
\* of the document's status that is conditional on the status observed never
\* replaces a status written since by another operation.
C7_StatusWriteIsConditional ==
    [][\A u \in Users :
          (approvalPc[u] = "updateDocument" /\ approvalPc'[u] = "insertStatusUpdate") =>
              LET d == approvalArgs[u].documentId IN
                  docStatus'[d] # docStatus[d] => docStatus[d] = "pending_approval"]_vars

\* The number of approver rows of document d with status st.
CountStatus(d, st) == Cardinality({i \in DOMAIN approvers[d] : approvers[d][i].status = st})

\* C8: once the three approvers of a document have all decided, whatever the
\* order of their decisions, the status is in_progress if all approved and
\* rejected if exactly one rejected.
C8_OrderIndependence ==
    \A d \in Docs :
        (Len(approvers[d]) = 3 /\ AllDecided(d) /\ ~ApprovalEvaluating(d))
        => /\ CountStatus(d, "rejected") = 0 => docStatus[d] = "in_progress"
           /\ CountStatus(d, "rejected") = 1 => docStatus[d] = "rejected"

\* Three approvers have decided, the first decision logged being the rejection
\* and the two approvals following it.
C8_Witness ==
    \E d \in Docs :
        /\ Len(approvers[d]) = 3 /\ AllDecided(d) /\ ~ApprovalEvaluating(d)
        /\ CountStatus(d, "rejected") = 1
        /\ approvers[d][3].status = "rejected"
        /\ Len(statusUpdates) = 4
        /\ statusUpdates[2].update_type = "rejected"
        /\ statusUpdates[3].update_type = "approved"
        /\ statusUpdates[4].update_type = "approved"
        /\ docStatus[d] = "rejected"

\* C9: a signer row is only modified while its document is in_progress.
C9_SignersOnlyInProgress ==
    [][\A d \in Docs :
          (externalSigners[d] # <<>> /\ externalSigners'[d] # externalSigners[d])
              => docStatus[d] = "in_progress"]_vars

\* C10: an approver row is only modified while its document is pending_approval.
C10_ApproversOnlyPendingApproval ==
    [][\A d \in Docs :
          (approvers[d] # <<>> /\ approvers'[d] # approvers[d])
              => docStatus[d] = "pending_approval"]_vars

\* User u runs handleApproval on an approver row assigned to another user.
OtherRowCall(u) ==
    /\ approvalArgs[u].documentId # None
    /\ approvers[approvalArgs[u].documentId][approvalArgs[u].approverId].user_id # u

\* C11: no step of a handleApproval call made by a user who is not the user of
\* the targeted approver row changes an approver row, a document's status or
\* the log of status updates.
C11_OtherSubjectChangesNothing ==
    [][\A u \in Users :
          (approvalPc'[u] # approvalPc[u] /\ (OtherRowCall(u) \/ OtherRowCall(u)'))
              => /\ approvers' = approvers
                 /\ docStatus' = docStatus
                 /\ statusUpdates' = statusUpdates]_vars

\* User u may update the signers of document d: its creator or an admin.
MayUpdateSigners(u, d) == u = docCreatedBy[d] \/ is_admin(u)

\* C12: an existing signer row changes only in a step of updateSignerStatus run
\* by the document's creator or an admin, and no step of updateSignerStatus run
\* by anyone else changes a signer row or a document's status.
C12_SignersChangedByCreatorOrAdmin ==
    [][/\ \A d \in Docs :
            (externalSigners[d] # <<>> /\ externalSigners'[d] # externalSigners[d])
                => \E u \in Users : signerPc'[u] # signerPc[u] /\ MayUpdateSigners(u, d)
       /\ \A u \in Users :
            (/\ signerPc'[u] # signerPc[u]
             /\ pageDocument[u].id # None
             /\ ~MayUpdateSigners(u, pageDocument[u].id))
                => externalSigners' = externalSigners /\ docStatus' = docStatus]_vars

\* u2 has run updateSignerStatus to its end on a document of u1 (its status
\* update is in the log) and the signer rows are all still pending.
C12_Witness ==
    \E d \in Docs :
        /\ docCreatedBy[d] = "u1"
        /\ externalSigners[d] # <<>>
        /\ Every(externalSigners[d], "pending")
        /\ signerPc["u2"] = "refetch"
        /\ \E i \in DOMAIN statusUpdates :
              statusUpdates[i].updated_by = "u2" /\ statusUpdates[i].document_id = d

\* C13: once one of the two approvers of a document has rejected and the
\* document's status is rejected, no later step changes an approver row or the
\* status of that document.
C13_NothingChangesAfterRejection ==
    [][\A d \in Docs :
          (/\ Len(approvers[d]) = 2
           /\ Some(approvers[d], "rejected")
           /\ docStatus[d] = "rejected")
              => approvers'[d] = approvers[d] /\ docStatus'[d] = docStatus[d]]_vars

\* C14: a submission whose approver list or signer list is empty is refused with
\* validation errors: the step that shows the errors creates no row and starts
\* no submission, and no submission in flight carries an empty list.
C14_EmptyListsRefused ==
    /\ [](\A u \in Users :
            submitPc[u] # "idle"
                => Len(submitArgs[u].approvers) >= 1 /\ submitArgs[u].external_signers >= 1)
    /\ [][\A u \in Users :
            (errors'[u] /\ ~errors[u])
                => UNCHANGED storeVars /\ submitPc'[u] = "idle"]_vars

\* The form of u1 shows validation errors and no document exists.
C14_Witness ==
    errors["u1"] /\ \A d \in Docs : docStatus[d] = None /\ approvers[d] = <<>>

\* The rows of the log of type `created` that reference document d.
CreatedEvents(log, d) ==
    {i \in DOMAIN log : log[i].document_id = d /\ log[i].update_type = "created"}

C16_SubmissionAtomic ==
    (\A u \in Users : submitPc[u] = "idle")
        => \A d \in Docs :
              docStatus[d] # None
                  => /\ approvers[d] # <<>>
                     /\ externalSigners[d] # <<>>
                     /\ CreatedEvents(statusUpdates, d) # {}

\* C17: a handler that leaves an await whose write did not reach the store (the
\* insert of the status update, the update of the document's status by a user
\* the policy lets through) ends with the error toast and not the success one.
C17_FailureReported ==
    [][\A u \in Users :
          /\ (submitPc[u] = "insertStatusUpdate" /\ submitPc'[u] # submitPc[u]
                  /\ statusUpdates' = statusUpdates)
                => toast'[u] = "error"
          /\ (approvalPc[u] = "insertStatusUpdate" /\ approvalPc'[u] # approvalPc[u]
                  /\ statusUpdates' = statusUpdates)
                => toast'[u] = "error" /\ approvalPc'[u] = "idle"
          /\ (signerPc[u] = "insertStatusUpdate" /\ signerPc'[u] # signerPc[u]
                  /\ statusUpdates' = statusUpdates)
                => toast'[u] = "error" /\ signerPc'[u] = "idle"
          /\ (signerPc[u] = "updateDocument" /\ signerPc'[u] # signerPc[u]
                  /\ DocumentsUpdatePolicy(u, signerArgs[u].documentId)
                  /\ docStatus'[signerArgs[u].documentId] #
                        SignerOutcome(updatedSigners(u, signerArgs[u].signerId,
                                                     signerArgs[u].status)))
                => toast'[u] = "error" /\ signerPc'[u] = "idle"]_vars

\* The log after the step is the log before it with one row added, for
\* document d and by user u.
OneEventAppended(u, d) ==
    /\ Len(statusUpdates') = Len(statusUpdates) + 1
    /\ SubSeq(statusUpdates', 1, Len(statusUpdates)) = statusUpdates
    /\ statusUpdates'[Len(statusUpdates')].document_id = d
    /\ statusUpdates'[Len(statusUpdates')].updated_by = u

\* C18: onSubmit, handleApproval and updateSignerStatus each get past the await
\* of their status update towards their successful end only with one row for
\* the document added to the log.
C18_OneEventPerOperation ==
    [][\A u \in Users :
          /\ (submitPc[u] = "insertStatusUpdate" /\ submitPc'[u] = "idle"
                  /\ toast'[u] = "success")
                => OneEventAppended(u, submitArgs[u].documentId)
          /\ (approvalPc[u] = "insertStatusUpdate" /\ approvalPc'[u] = "refetch")
                => OneEventAppended(u, approvalArgs[u].documentId)
          /\ (signerPc[u] = "insertStatusUpdate"
                  /\ signerPc'[u] \in {"updateDocument", "refetch"})
                => OneEventAppended(u, signerArgs[u].documentId)]_vars

\* C19: the log of status updates only grows at its end: after every step the
\* rows it held before are still there, unchanged and in the same order.
C19_LogAppendOnly ==
    [][/\ Len(statusUpdates') >= Len(statusUpdates)
       /\ SubSeq(statusUpdates', 1, Len(statusUpdates)) = statusUpdates]_vars

\* The log holds the `created` event, an approver's event and a signer's event.
C19_Witness ==
    /\ Len(statusUpdates) >= 3
    /\ statusUpdates[1].update_type = "created"
    /\ \E i \in DOMAIN statusUpdates : statusUpdates[i].update_type = "approved"
    /\ \E i \in DOMAIN statusUpdates : statusUpdates[i].update_type = "signature_received"

\* User u's page has just been loaded by fetchDocumentDetails in this step.
DetailsFetched(u) ==
    \/ pageDocument'[u] # pageDocument[u]
    \/ pageSigners'[u] # pageSigners[u]
    \/ signerPc[u] = "refetch" /\ signerPc'[u] = "idle"

C21_ApproversUnique ==
    /\ [](\A d \in Docs : \A i, j \in DOMAIN approvers[d] :
             i # j => approvers[d][i].user_id # approvers[d][j].user_id)
    /\ [][\A u \in Users :
            (/\ submitPc[u] = "insertApprovers" /\ submitPc'[u] # submitPc[u]
             /\ \E i, j \in DOMAIN submitArgs[u].approvers :
                    i # j /\ submitArgs[u].approvers[i] = submitArgs[u].approvers[j])
                => approvers' = approvers /\ toast'[u] = "error"]_vars

\* A submission naming the same approver twice has ended: the error toast is
\* shown and the document has no approver row.
C21_Witness ==
    \E d \in Docs :
        /\ docStatus[d] # None
        /\ submitPc[docCreatedBy[d]] = "idle"
        /\ toast[docCreatedBy[d]] = "error"
        /\ approvers[d] = <<>>

\* C22: every profile row created by sign-up, by the trigger or by the client,
\* has is_admin exactly when its employee code is one of 0001, 0002, 0003, 0004,
\* and isAdminCode and handle_new_user agree on every employee code.
C22_AdminIffAdminCode ==
    /\ \A id \in AuthIds :
          profiles[id] # NoProfile =>
              /\ profiles[id].employee_code = authCode[id]
              /\ profiles[id].is_admin <=>
                    profiles[id].employee_code \in {"0001", "0002", "0003", "0004"}
    /\ \A employeeCode \in EmployeeCodes \cup {"0002", "0003"} :
          isAdminCode(employeeCode) =
              handle_new_user([employee_code |-> employeeCode]).is_admin

\* Two accounts have their profile rows, one an admin with code 0004 and one
\* not an admin.
C22_Witness ==
    \E id, other \in AuthIds :
        /\ profiles[id].employee_code = "0004" /\ profiles[id].is_admin
        /\ profiles[other] # NoProfile /\ ~profiles[other].is_admin

\* The approval of document d is in the log and every signature logged for d
\* was logged after it: the signers were recorded on the approved document.
SignedAfterApproval(d) ==
    \E i \in DOMAIN statusUpdates :
        /\ statusUpdates[i].document_id = d
        /\ statusUpdates[i].update_type = "approved"
        /\ \A j \in DOMAIN statusUpdates :
              statusUpdates[j].update_type = "signature_received" => j > i

\* C23: when every signer row of an approved document is signed and no
\* handleApproval or updateSignerStatus call is left running, every page showing
\* the rows as they are now, the document's status is not in_progress any more:
\* some call has written completed, however the calls of the sessions
\* interleaved.
C23_AllSignedCompletes ==
    \A d \in Docs :
        (/\ externalSigners[d] # <<>>
         /\ Every(externalSigners[d], "signed")
         /\ SignedAfterApproval(d)
         /\ \A u \in Users :
               /\ approvalPc[u] = "idle"
               /\ signerPc[u] = "idle"
               /\ pageDocument[u].id = d => pageSigners[u] = externalSigners[d])
            => docStatus[d] # "in_progress"

\* The page is unloaded in this step, with the calls and timers it holds.
ReloadStep == mountPc = "mounted" /\ mountPc' = "getSession"

\* The fetchUserProfile chain c ends in this step, the page staying.
ChainEnds(c) ==
    /\ c \in fetches
    /\ \A x \in fetches' : x.n # c.n
    /\ ~ReloadStep

\* The profile row of account id as setUser(data) stores it.
FetchedProfile(id) ==
    [id |-> id, employee_code |-> profiles[id].employee_code,
     is_admin |-> profiles[id].is_admin]

\* A retry is scheduled only after a select that found no profile row, and only
\* three times in a chain: no chain makes more than four attempts.
RetryRule ==
    /\ [](\A c \in fetches : c.retryCount <= 3)
    /\ [][\A c \in fetches, x \in fetches' :
            (x.n = c.n /\ c.pc = "select" /\ x.pc = "timeout") =>
                /\ profiles[c.id] = NoProfile
                /\ c.retryCount < 3
                /\ x.retryCount = c.retryCount + 1]_vars

\* Every fetchUserProfile chain that is started comes to its end.
ChainsTerminate ==
    \A n \in 1..MaxFetches :
        (\E c \in fetches : c.n = n) ~> (\A c \in fetches : c.n # n)

\* C24, as stated: fetchUserProfile retries only when the profile row is
\* missing, at most three times; every chain terminates, and it ends either with
\* user set to the fetched profile or, the profile still missing after the
\* third retry, with the session signed out.
C24_TwoEndings ==
    /\ RetryRule
    /\ [][\A c \in fetches :
            /\ ChainEnds(c) =>
                  \/ c.pc = "select" /\ profiles[c.id] # NoProfile
                        /\ user' = FetchedProfile(c.id)
                  \/ c.pc = "signOut" /\ session' = None
            /\ (\E x \in fetches' : x.n = c.n /\ c.pc = "select" /\ x.pc = "signOut") =>
                  c.retryCount = 3 /\ profiles[c.id] = NoProfile]_vars

\* C24, amended: fetchUserProfile retries only when the profile row is missing,
\* at most three times; every chain terminates, and it ends with user set to
\* the fetched profile, or, the select failing after the third retry, with the
\* session signed out, or, the select failing with another error than the
\* missing row before the third retry, with user and session left as they are.
C24_ThreeEndings ==
    /\ RetryRule
    /\ ChainsTerminate
    /\ [][\A c \in fetches :
            /\ ChainEnds(c) =>
                  \/ c.pc = "select" /\ profiles[c.id] # NoProfile
                        /\ user' = FetchedProfile(c.id)
                  \/ c.pc = "signOut" /\ session' = None
                  \/ c.pc = "select" /\ c.retryCount < 3
                        /\ user' = user /\ session' = session
            /\ (\E x \in fetches' : x.n = c.n /\ c.pc = "select" /\ x.pc = "signOut") =>
                  c.retryCount = 3]_vars

\* A chain has made its fourth attempt, after three retries, without finding
\* the profile row, and is about to sign the session out.
C24_Witness ==
    \E c \in fetches :
        c.retryCount = 3 /\ c.pc = "signOut" /\ profiles[c.id] = NoProfile

\* C25: whenever user is set there is a session and user.id is the id of that
\* session's account: no fetchUserProfile chain started for an earlier session
\* sets user after the sign-out or after another account has signed in.
C25_UserIsSessionUser ==
    user # NoUser => (session # None /\ user.id = session)

\* C26: while a fetchUserProfile chain of the current session has not ended,
\* its select awaited or its retry scheduled, loading is true.
C26_LoadingWhileFetching ==
    (\E c \in fetches : c.id = session) => loading

\* C27: decisions are final: an approver row that is approved or rejected and
\* a signer row that is signed or rejected is not changed by any later step of
\* any session; only rows still pending in the store are written.
C27_DecisionsFinal ==
    [][\A d \in Docs :
          /\ \A i \in DOMAIN approvers[d] :
                approvers[d][i].status # "pending" => approvers'[d][i] = approvers[d][i]
          /\ \A i \in DOMAIN externalSigners[d] :
                externalSigners[d][i].status # "pending" =>
                    externalSigners'[d][i] = externalSigners[d][i]]_vars

\* C28: an approver row has approved_at set exactly when its status is
\* approved and a signer row has signed_at set exactly when its status is
\* signed; a row recording a rejection has a null timestamp.
C28_TimestampIffPositive ==
    \A d \in Docs :
        /\ \A i \in DOMAIN approvers[d] :
              approvers[d][i].approved_at # None <=> approvers[d][i].status = "approved"
        /\ \A i \in DOMAIN externalSigners[d] :
              externalSigners[d][i].signed_at # None <=>
                  externalSigners[d][i].status = "signed"

\* A document has an approved and a rejected approver row and a signed and a
\* rejected signer row.
C28_Witness ==
    \E d \in Docs :
        /\ Some(approvers[d], "approved") /\ Some(approvers[d], "rejected")
        /\ Some(externalSigners[d], "signed") /\ Some(externalSigners[d], "rejected")

\* The arguments of the handleApproval call of u that takes a step: the ones it
\* starts with, or the ones it holds.
ApprovalCall(u) ==
    IF approvalPc[u] = "idle" THEN approvalArgs'[u] ELSE approvalArgs[u]

\* The arguments of the updateSignerStatus call of u that takes a step.
SignerCall(u) ==
    IF signerPc[u] = "idle" THEN signerArgs'[u] ELSE signerArgs[u]

\* The step leaves every document other than d as it is: its status, creator,
\* approver rows and signer rows, and appends no status update for it.
OtherDocumentsUnchanged(d) ==
    /\ \A other \in Docs \ {d} :
          /\ docStatus'[other] = docStatus[other]
          /\ docCreatedBy'[other] = docCreatedBy[other]
          /\ approvers'[other] = approvers[other]
          /\ externalSigners'[other] = externalSigners[other]
    /\ \/ statusUpdates' = statusUpdates
       \/ /\ Len(statusUpdates') = Len(statusUpdates) + 1
          /\ SubSeq(statusUpdates', 1, Len(statusUpdates)) = statusUpdates
          /\ statusUpdates'[Len(statusUpdates')].document_id = d

\* C29: a step of handleApproval(documentId, approverId, ...) changes no approver
\* row other than approverId's and no signer row; a step of updateSignerStatus
\* changes no signer row other than signerId's and no approver row; neither
\* changes the status or the rows of another document.
C29_Frame ==
    [][/\ \A u \in Users :
            (approvalPc'[u] # approvalPc[u] /\ ApprovalCall(u).documentId # None) =>
                LET call == ApprovalCall(u) IN
                    /\ \A i \in DOMAIN approvers[call.documentId] :
                          i # call.approverId =>
                              approvers'[call.documentId][i] = approvers[call.documentId][i]
                    /\ externalSigners' = externalSigners
                    /\ OtherDocumentsUnchanged(call.documentId)
       /\ \A u \in Users :
            (signerPc'[u] # signerPc[u] /\ SignerCall(u).documentId # None) =>
                LET call == SignerCall(u) IN
                    /\ \A i \in DOMAIN externalSigners[call.documentId] :
                          i # call.signerId =>
                              externalSigners'[call.documentId][i] =
                                  externalSigners[call.documentId][i]
                    /\ approvers' = approvers
                    /\ OtherDocumentsUnchanged(call.documentId)]_vars

\* Document d1 is completed, its approver row approved by a1's handleApproval
\* and its two signer rows signed by u1's updateSignerStatus calls, while
\* document d2 stands as u2 submitted it, with a1's approver row pending.
C29_Witness ==
    /\ docStatus["d1"] = "completed"
    /\ Every(approvers["d1"], "approved")
    /\ Len(externalSigners["d1"]) = 2 /\ Every(externalSigners["d1"], "signed")
    /\ docStatus["d2"] = "pending_approval"
    /\ approvers["d2"] # <<>> /\ Every(approvers["d2"], "pending")
    /\ externalSigners["d2"] # <<>> /\ Every(externalSigners["d2"], "pending")

====
